---- MODULE Spec2Model ----
(***************************************************************************)
(* Storyboard animation engine of story-teller-graph-based:                *)
(*   generate_script.parse_output            (wire text -> story frames)   *)
(*   main.generate_animated_frame_sequence   (story frame -> reveal steps) *)
(*   main.generate_frame / generate_frames   (render steps, assemble clip) *)
(* Strings are sequences of one-character strings, so that str.split and   *)
(* int() are computed character by character as Python computes them.      *)
(***************************************************************************)
EXTENDS Integers, Sequences, FiniteSets, TLC

(***************************************************************************)
(* Bounds of the model.                                                    *)
(***************************************************************************)
MaxNodes == 3
MaxConns == 2
MaxSources == 2
MaxWireFrames == 2
MaxIndex == 1
MaxSessionSources == 1
MaxSessionConns == 1
MaxStoryFrames == 2
MaxAudio == 5
MaxSessions == 2
MaxBackground == 8
MaxJobs == 2
MaxAgentJobs == 1
MaxWorkers == 2
MaxTime == 1
MaxSubheadings == 3
MaxPositionIndex == 37

(***************************************************************************)
(* Python values.                                                          *)
(***************************************************************************)
None == "None"

Range(s) == {s[k] : k \in 1..Len(s)}

RECURSIVE SeqsUpTo(_, _)
\* all sequences over S of length 0..n
SeqsUpTo(S, n) ==
  IF n = 0 THEN {<<>>}
  ELSE LET shorter == SeqsUpTo(S, n - 1)
       IN  shorter \cup {Append(q, x) : q \in {r \in shorter : Len(r) = n - 1}, x \in S}

RECURSIVE Flatten(_)
Flatten(ss) == IF ss = <<>> THEN <<>> ELSE Head(ss) \o Flatten(Tail(ss))

(***************************************************************************)
(* str.split(sep) for a one-character separator: the fields between the    *)
(* occurrences of sep, empty fields kept; always at least one field.       *)
(***************************************************************************)
RECURSIVE split(_, _)
split(s, sep) ==
  IF \A k \in 1..Len(s) : s[k] # sep
  THEN <<s>>
  ELSE LET k == CHOOSE c \in 1..Len(s) :
                  s[c] = sep /\ \A j \in 1..(c - 1) : s[j] # sep
       IN  <<SubSeq(s, 1, k - 1)>> \o split(SubSeq(s, k + 1, Len(s)), sep)

RECURSIVE join(_, _)
\* sep.join(parts)
join(parts, sep) ==
  IF parts = <<>> THEN <<>>
  ELSE IF Len(parts) = 1 THEN parts[1]
  ELSE parts[1] \o <<sep>> \o join(Tail(parts), sep)

(***************************************************************************)
(* int(s) on the alphabet of the model: an optional sign followed by one   *)
(* or more decimal digits; anything else raises ValueError.                *)
(***************************************************************************)
Digits == <<"0", "1", "2", "3", "4", "5", "6", "7", "8", "9">>

IsDigit(c) == \E d \in 1..10 : Digits[d] = c

DigitVal(c) == (CHOOSE d \in 1..10 : Digits[d] = c) - 1

RECURSIVE DecimalVal(_)
DecimalVal(s) ==
  IF s = <<>> THEN 0
  ELSE 10 * DecimalVal(SubSeq(s, 1, Len(s) - 1)) + DigitVal(s[Len(s)])

HasSign(s) == Len(s) > 0 /\ s[1] \in {"+", "-"}

Unsigned(s) == IF HasSign(s) THEN Tail(s) ELSE s

IsIntLiteral(s) ==
  /\ Len(Unsigned(s)) > 0
  /\ \A k \in 1..Len(Unsigned(s)) : IsDigit(Unsigned(s)[k])

int(s) ==
  IF HasSign(s) /\ s[1] = "-" THEN 0 - DecimalVal(Unsigned(s))
  ELSE DecimalVal(Unsigned(s))

(***************************************************************************)
(* generate_script.parse_output                                            *)
(***************************************************************************)
NO_NODE == <<"N", "O", "_", "N", "O", "D", "E">>

NoError == "none"

\* ParseConnection keeping only the first source of an entry
ParseConnectionFirstSource(con_text) ==
  LET conn_text_parsed == split(con_text, ":")
      start_tokens == split(conn_text_parsed[1], ",")
  IN  IF \E k \in 1..Len(start_tokens) : ~IsIntLiteral(start_tokens[k])
      THEN [err |-> "ValueError", conn |-> <<>>]
      ELSE IF Len(conn_text_parsed) < 2
      THEN [err |-> "IndexError", conn |-> <<>>]
      ELSE IF ~IsIntLiteral(conn_text_parsed[2])
      THEN [err |-> "ValueError", conn |-> <<>>]
      ELSE [err |-> NoError,
            conn |-> << <<int(start_tokens[1])>>, int(conn_text_parsed[2]) >>]

\* one iteration of "for con_text in connection_text_raw.split(';')"
ParseConnection(con_text) ==
  LET conn_text_parsed == split(con_text, ":")
      start_tokens == split(conn_text_parsed[1], ",")
  IN  IF \E k \in 1..Len(start_tokens) : ~IsIntLiteral(start_tokens[k])
      THEN [err |-> "ValueError", conn |-> <<>>]
      ELSE IF Len(conn_text_parsed) < 2
      THEN [err |-> "IndexError", conn |-> <<>>]
      ELSE IF ~IsIntLiteral(conn_text_parsed[2])
      THEN [err |-> "ValueError", conn |-> <<>>]
      ELSE [err |-> NoError,
            conn |-> << [k \in 1..Len(start_tokens) |-> int(start_tokens[k])],
                        int(conn_text_parsed[2]) >>]

\* the node loop: every ','-separated entry split on ':' (no validation)
ParseNodes(node_text_raw) ==
  LET node_texts == split(node_text_raw, ",")
  IN  [k \in 1..Len(node_texts) |-> split(node_texts[k], ":")]

\* the body of "for frame_text in raw_output.split('$')":
\* appended = whether frames.append ran for this frame
ParseFrame(frame_text) ==
  LET frame_segments == split(frame_text, "?")
  IN  IF Len(frame_segments) < 4
      THEN [err |-> "IndexError", appended |-> FALSE, frame |-> <<>>]
      ELSE
      LET text == frame_segments[2]
          node_text_raw == frame_segments[3]
          connection_text_raw == frame_segments[4]
      IN  IF node_text_raw # NO_NODE
          THEN LET con_texts == split(connection_text_raw, ";")
                   parsed == [k \in 1..Len(con_texts) |-> ParseConnection(con_texts[k])]
                   bad == {k \in 1..Len(parsed) : parsed[k].err # NoError}
               IN  IF bad # {}
                   THEN [err |-> parsed[CHOOSE k \in bad : \A j \in bad : k <= j].err,
                         appended |-> FALSE, frame |-> <<>>]
                   ELSE [err |-> NoError, appended |-> TRUE,
                         frame |-> [text |-> text,
                                    nodes |-> ParseNodes(node_text_raw),
                                    connections |-> [k \in 1..Len(parsed) |-> parsed[k].conn]]]
          ELSE [err |-> NoError, appended |-> FALSE, frame |-> <<>>]

RECURSIVE ParseFrames(_)
ParseFrames(frame_texts) ==
  IF frame_texts = <<>> THEN [err |-> NoError, frames |-> <<>>]
  ELSE LET before == ParseFrames(SubSeq(frame_texts, 1, Len(frame_texts) - 1))
           this == ParseFrame(frame_texts[Len(frame_texts)])
       IN  IF before.err # NoError THEN before
           ELSE IF this.err # NoError THEN [err |-> this.err, frames |-> <<>>]
           ELSE IF this.appended
           THEN [err |-> NoError, frames |-> Append(before.frames, this.frame)]
           ELSE before

\* err = the exception parse_output raises, or NoError with the returned list
parse_output(raw) == ParseFrames(split(raw, "$"))

(***************************************************************************)
(* main.generate_animated_frame_sequence                                   *)
(* A step is the tuple (nodes, connections, duration, frame_text,          *)
(* visible_nodes) the function appends.  A connection is the pair          *)
(* <<source_nodes, target_node>> with source_nodes a tuple, as             *)
(* parse_output builds it.                                                 *)
(***************************************************************************)
RECURSIVE SortedSeq(_)
\* sorted(S) for a finite set of integers
SortedSeq(S) ==
  IF S = {} THEN <<>>
  ELSE LET m == CHOOSE x \in S : \A y \in S : x <= y
       IN  <<m>> \o SortedSeq(S \ {m})

FrameStep(nodes, connections, duration, frame_text, visible_nodes) ==
  [nodes |-> nodes, connections |-> connections, duration |-> duration,
   frame_text |-> frame_text, visible_nodes |-> visible_nodes]

\* ConnNodes without "new_nodes.add(target_node)"
ConnNodesSourcesOnly(conn) == Range(conn[1])

\* new_nodes of one connection: its sources and its target
ConnNodes(conn) == Range(conn[1]) \cup {conn[2]}

RECURSIVE RevealLoop(_, _, _, _, _)
\* the loop showing each new node together with the new connection
\* ("connections[:i+1]" for "connections[:i]" in the node steps)
RevealLoopEdgeWithNode(nodes, connections, frame_text, duration_per_step, upto) ==
  IF upto = 0 THEN [frame_sequence |-> <<>>, visible_nodes |-> {}]
  ELSE LET before == RevealLoop(nodes, connections, frame_text, duration_per_step, upto - 1)
           conn == connections[upto]
           nodes_to_reveal == SortedSeq(ConnNodes(conn) \ before.visible_nodes)
           node_steps ==
             [k \in 1..Len(nodes_to_reveal) |->
                FrameStep(nodes, SubSeq(connections, 1, upto), duration_per_step, frame_text,
                          before.visible_nodes \cup {nodes_to_reveal[j] : j \in 1..k})]
           visible_nodes == before.visible_nodes \cup ConnNodes(conn)
       IN  [frame_sequence |->
              before.frame_sequence \o node_steps \o
              <<FrameStep(nodes, SubSeq(connections, 1, upto), duration_per_step, frame_text,
                          visible_nodes)>>,
            visible_nodes |-> visible_nodes]

\* the loop "for i in range(len(connections))" after its first upto
\* iterations: the steps appended so far and the running visible_nodes
RevealLoop(nodes, connections, frame_text, duration_per_step, upto) ==
  IF upto = 0 THEN [frame_sequence |-> <<>>, visible_nodes |-> {}]
  ELSE LET before == RevealLoop(nodes, connections, frame_text, duration_per_step, upto - 1)
           conn == connections[upto]
           nodes_to_reveal == SortedSeq(ConnNodes(conn) \ before.visible_nodes)
           node_steps ==
             [k \in 1..Len(nodes_to_reveal) |->
                FrameStep(nodes, SubSeq(connections, 1, upto - 1), duration_per_step, frame_text,
                          before.visible_nodes \cup {nodes_to_reveal[j] : j \in 1..k})]
           visible_nodes == before.visible_nodes \cup ConnNodes(conn)
       IN  [frame_sequence |->
              before.frame_sequence \o node_steps \o
              <<FrameStep(nodes, SubSeq(connections, 1, upto), duration_per_step, frame_text,
                          visible_nodes)>>,
            visible_nodes |-> visible_nodes]

\* generate_animated_frame_sequence showing only node i in step i of a
\* frame without connections ("set([i])" for "set(range(i + 1))")
generate_animated_frame_sequence_single(nodes, connections, frame_text, duration_per_step) ==
  IF connections = <<>>
  THEN IF Len(nodes) = 0
       THEN <<FrameStep(nodes, <<>>, duration_per_step, frame_text, {})>>
       ELSE [k \in 1..Len(nodes) |->
               FrameStep(nodes, <<>>, duration_per_step, frame_text, {k - 1})]
  ELSE RevealLoop(nodes, connections, frame_text, duration_per_step,
                  Len(connections)).frame_sequence

generate_animated_frame_sequence(nodes, connections, frame_text, duration_per_step) ==
  IF connections = <<>>
  THEN IF Len(nodes) = 0
       THEN <<FrameStep(nodes, <<>>, duration_per_step, frame_text, {})>>
       ELSE [k \in 1..Len(nodes) |->
               FrameStep(nodes, <<>>, duration_per_step, frame_text, 0..(k - 1))]
  ELSE RevealLoop(nodes, connections, frame_text, duration_per_step,
                  Len(connections)).frame_sequence

(***************************************************************************)
(* Python's None next to a value: [is_none |-> TRUE] or the value wrapped. *)
(***************************************************************************)
NoneValue == [is_none |-> TRUE, value |-> <<>>]

Some(v) == [is_none |-> FALSE, value |-> v]

(***************************************************************************)
(* Inputs.  Node k of a frame is "box:black:<label k>"; frame k of a story *)
(* carries the label k and the k-th caption text.                          *)
(***************************************************************************)
Box == <<"b", "o", "x">>

Black == <<"b", "l", "a", "c", "k">>

NodeLabels == <<"X", "Y", "Z", "W", "V", "U">>

FrameTexts == <<"A", "B", "C", "D">>

Intro == <<"I", "n", "t", "r", "o">>

\* the text field of frame k: "A", "B", .. for a graph frame, "Intro",
\* "IntroB", .. for a caption-only frame
FrameText(k, kind) ==
  IF kind = "graph" THEN <<FrameTexts[k]>>
  ELSE IF k = 1 THEN Intro ELSE Intro \o <<FrameTexts[k]>>

NodeRecord(k) == <<Box, Black, <<NodeLabels[k]>>>>

NodeList(n) == [k \in 1..n |-> NodeRecord(k)]

IndexToken(n) == <<Digits[n + 1]>>

\* connections <<source_nodes, target_node>> over the indices of Idx
ConnectionsOver(Idx, maxSources, maxConns) ==
  SeqsUpTo((SeqsUpTo(Idx, maxSources) \ {<<>>}) \X Idx, maxConns)

\* the wire text of a node list and of a connection list (section 4.1 grammar)
EncodeNodes(nodes) ==
  IF nodes = <<>> THEN NO_NODE
  ELSE join([k \in 1..Len(nodes) |-> join(nodes[k], ":")], ",")

EncodeConnection(conn) ==
  join(<<join([k \in 1..Len(conn[1]) |-> IndexToken(conn[1][k])], ","),
         IndexToken(conn[2])>>, ":")

EncodeConnections(connections) ==
  IF connections = <<>> THEN NO_NODE
  ELSE join([k \in 1..Len(connections) |-> EncodeConnection(connections[k])], ";")

\* a StoryFrame list in the wire grammar: frame k is "k?text?nodeSpec?connSpec",
\* frames joined by '$'
EncodeStoryFrame(k, frame) ==
  join(<<IndexToken(k), frame.text, EncodeNodes(frame.nodes),
         EncodeConnections(frame.connections)>>, "?")

EncodeStoryFrames(frames) ==
  join([k \in 1..Len(frames) |-> EncodeStoryFrame(k, frames[k])], "$")

\* connection specs no grammar rule produces: a non-integer target, a
\* non-integer source, an entry without target
MalformedConnSpecs == {<<"0", ":", "x">>, <<"x", ":", "0">>, <<"0">>}

\* a story on the wire: kinds[k] tells whether frame k is a caption-only
\* frame (NO_NODE?NO_NODE) or the graph frame (nodeSpec?connSpec); fields is
\* the number of '?'-separated fields the graph frames are written with
WireFrame(k, kind, nodeSpec, connSpec, fields) ==
  LET head == <<IndexToken(k), FrameText(k, kind)>>
  IN  IF kind = "caption" THEN join(head \o <<NO_NODE, NO_NODE>>, "?")
      ELSE IF fields = 3 THEN join(head \o <<nodeSpec>>, "?")
      ELSE IF fields = 4 THEN join(head \o <<nodeSpec, connSpec>>, "?")
      ELSE join(head \o <<nodeSpec, connSpec, <<"x">>>>, "?")

WireStory(w) ==
  join([k \in 1..Len(w.kinds) |->
          WireFrame(k, w.kinds[k], w.nodeSpec, w.connSpec, w.fields)], "$")

WireInputs ==
  [kinds : SeqsUpTo({"graph", "caption"}, MaxWireFrames) \ {<<>>},
   nodes : {NodeList(n) : n \in 0..MaxNodes},
   connections : ConnectionsOver(0..MaxIndex, MaxSources, MaxConns),
   malformed : {<<>>} \cup {<<m>> : m \in MalformedConnSpecs},
   fields : {3, 4, 5}]

\* the wire text of an input description
WireOf(w) ==
  WireStory([kinds |-> w.kinds, fields |-> w.fields,
             nodeSpec |-> EncodeNodes(w.nodes),
             connSpec |-> IF w.malformed # <<>> THEN w.malformed[1]
                          ELSE EncodeConnections(w.connections)])

\* the two strings of the testable properties
IntroExample ==
  <<"1", "?", "I", "n", "t", "r", "o", "?">> \o NO_NODE \o <<"?">> \o NO_NODE

TwoNodeExample ==
  <<"1", "?", "A", "?">> \o join(<<Box, Black, <<"X">>>>, ":") \o <<",">>
    \o join(<<Box, Black, <<"Y">>>>, ":") \o <<"?", "0", ":", "1">>

\* frames handed to the sequencer: up to MaxNodes nodes, connections over
\* the indices 0..MaxNodes-1 (out of range when the frame has fewer nodes)
SequencerFrames ==
  [text : {<<FrameTexts[1]>>},
   nodes : {NodeList(n) : n \in 0..MaxNodes},
   connections : ConnectionsOver(0..(MaxNodes - 1), MaxSources, MaxConns)]

STEP_DURATION == 1

(***************************************************************************)
(* main._get_predefined_position                                           *)
(* A position is kept as the polar pair the code computes before it takes  *)
(* cos and sin: the radius in hundredths and the angle 2*pi*num/den with   *)
(* num/den in lowest terms.  (x, y) is an injective function of this pair  *)
(* for radius > 0, and the clamp to [0.05, 0.95] never applies because the *)
(* radius is capped at 0.42.                                               *)
(***************************************************************************)
BASE_RADIUS == 20
RADIUS_STEP == 15
RADIUS_CAP == 42

Min(a, b) == IF a <= b THEN a ELSE b

Max(a, b) == IF a >= b THEN a ELSE b

RECURSIVE GCD(_, _)
GCD(a, b) == IF b = 0 THEN a ELSE GCD(b, a % b)

RECURSIVE FindLayer(_, _, _)
\* the search with six slots in every layer, as the docstring has it
\* ("Nodes 7-12: Second layer")
FindLayerSixPerLayer(index, layer, nodes_before_layer) ==
  IF nodes_before_layer + 6 <= index
  THEN FindLayer(index, layer + 1, nodes_before_layer + 6)
  ELSE [layer |-> layer, nodes_before_layer |-> nodes_before_layer]

\* the while loop: advance while nodes_before_layer + nodes_in_current_layer <= index
FindLayer(index, layer, nodes_before_layer) ==
  IF nodes_before_layer + 6 * layer <= index
  THEN FindLayer(index, layer + 1, nodes_before_layer + 6 * layer)
  ELSE [layer |-> layer, nodes_before_layer |-> nodes_before_layer]

predefined_position(index) ==
  IF index = 0 THEN [radius |-> 0, num |-> 0, den |-> 1]
  ELSE LET found == FindLayer(index, 1, 1)
           position_in_layer == index - found.nodes_before_layer
           nodes_in_current_layer == 6 * found.layer
           g == GCD(nodes_in_current_layer, position_in_layer)
       IN  [radius |-> Min(BASE_RADIUS + (found.layer - 1) * RADIUS_STEP, RADIUS_CAP),
            num |-> position_in_layer \div g,
            den |-> nodes_in_current_layer \div g]

\* _get_predefined_position(index) with the locals of the call: the layer
\* and the position in the layer the search found (0 and 0 for the early
\* return of index 0), and the position returned
get_predefined_position(index) ==
  LET found == FindLayer(index, 1, 1)
  IN  [index |-> index,
       layer |-> IF index = 0 THEN 0 ELSE found.layer,
       position_in_layer |-> IF index = 0 THEN 0 ELSE index - found.nodes_before_layer,
       position |-> predefined_position(index)]

(***************************************************************************)
(* main._last_frame_state, reset_frame_state, generate_frame               *)
(***************************************************************************)
EmptyDict == [k \in {} |-> 0]

InitialFrameState ==
  [positions |-> NoneValue, nodes |-> NoneValue, graph |-> NoneValue,
   next_position_index |-> 0]

\* clear() followed by update({...})
reset_frame_state(state) ==
  [positions |-> NoneValue, nodes |-> NoneValue, graph |-> NoneValue,
   next_position_index |-> 0]

NodeIndices(nodes) == 0..(Len(nodes) - 1)

\* layout that starts from an empty pos instead of the previous positions
LayoutFromScratch(state, nodes) ==
  [k \in NodeIndices(nodes) |-> predefined_position(k)]

\* lines 233-250: pos = copy of the previous positions, then every index of
\* the frame not yet in pos gets its predefined position (the loop of lines
\* 247-250 adds nothing: pos already holds every previous index)
Layout(state, nodes) ==
  LET previous == IF state.positions.is_none THEN EmptyDict ELSE state.positions.value
  IN  [k \in DOMAIN previous \cup NodeIndices(nodes) |->
         IF k \in DOMAIN previous THEN previous[k] ELSE predefined_position(k)]

\* lines 195-201: the indices of the frame that are in visible_nodes
CurrentNodeIndices(nodes, visible_nodes) == NodeIndices(nodes) \cap visible_nodes

\* ghosts computed against range(len(nodes)) instead of current_node_indices
GhostNodesAgainstAllNodes(state, nodes, visible_nodes, preserve_last, pos) ==
  IF preserve_last /\ ~state.nodes.is_none
  THEN LET previous == state.nodes.value
       IN  [k \in {j \in NodeIndices(previous) \ NodeIndices(nodes) : j \in DOMAIN pos} |->
              previous[k + 1]]
  ELSE EmptyDict

\* lines 273-303: the disappeared nodes, each with the record it has in the
\* node list of the previous call
GhostNodes(state, nodes, visible_nodes, preserve_last, pos) ==
  IF preserve_last /\ ~state.nodes.is_none
  THEN LET previous == state.nodes.value
           disappeared_nodes == NodeIndices(previous) \ CurrentNodeIndices(nodes, visible_nodes)
       IN  [k \in {j \in disappeared_nodes : j < Len(previous) /\ j \in DOMAIN pos} |->
              previous[k + 1]]
  ELSE EmptyDict

\* lines 203-209: G.add_edge for every source of every connection
GraphEdges(connections) ==
  UNION {{<<src, connections[c][2]>> : src \in Range(connections[c][1])} :
           c \in 1..Len(connections)}

\* the nodes of G: the visible nodes of the frame and every edge endpoint
GraphNodes(nodes, connections, visible_nodes) ==
  CurrentNodeIndices(nodes, visible_nodes) \cup
  UNION {ConnNodes(connections[c]) : c \in 1..Len(connections)}

\* generate_frame(nodes, connections, duration, preserve_last, frame_text,
\* visible_nodes) run on the module state `state`: the exception it raises
\* (or NoError), the clip it returns and the module state it leaves.
\* A clip is described by what was drawn into its image.
generate_frame(state, nodes, connections, duration, preserve_last, frame_text, visible_nodes) ==
  IF Len(nodes) = 0
  THEN [err |-> NoError, state |-> state,
        clip |-> [kind |-> "text", frame_text |-> frame_text, duration |-> duration,
                  live |-> EmptyDict, ghosts |-> EmptyDict, edges |-> {},
                  positions |-> EmptyDict]]
  ELSE IF \E k \in 1..Len(nodes) : Len(nodes[k]) # 3
  THEN [err |-> "ValueError", state |-> state, clip |-> <<>>]
  ELSE
  LET G == [nodes |-> GraphNodes(nodes, connections, visible_nodes),
            edges |-> GraphEdges(connections)]
      pos == Layout(state, nodes)
      ghosts == GhostNodes(state, nodes, visible_nodes, preserve_last, pos)
      live == [k \in NodeIndices(nodes) \cap G.nodes |-> nodes[k + 1]]
  IN  IF \E e \in G.edges : e[1] \notin DOMAIN pos \/ e[2] \notin DOMAIN pos
      THEN [err |-> "KeyError", state |-> state, clip |-> <<>>]
      ELSE [err |-> NoError,
            state |-> [positions |-> Some(pos), nodes |-> Some(nodes), graph |-> Some(G),
                       next_position_index |-> state.next_position_index],
            clip |-> [kind |-> "graph", frame_text |-> frame_text, duration |-> duration,
                      live |-> live, ghosts |-> ghosts, edges |-> G.edges,
                      positions |-> [k \in DOMAIN live \cup DOMAIN ghosts |-> pos[k]]]]

(***************************************************************************)
(* main.generate_video_from_story / generate_frames: helpers               *)
(***************************************************************************)
\* lines 522-551: every story frame expanded, each step tagged with the
\* index ind of its story frame
FormattedFramesOf(k, story_frame, duration_per_step) ==
  LET animated_sequence ==
        generate_animated_frame_sequence(story_frame.nodes, story_frame.connections,
                                         story_frame.text, duration_per_step)
  IN  [e \in 1..Len(animated_sequence) |->
         [ind |-> k - 1,
          text |-> animated_sequence[e].frame_text,
          nodes |-> animated_sequence[e].nodes,
          connections |-> animated_sequence[e].connections,
          duration |-> animated_sequence[e].duration,
          visible_nodes |-> animated_sequence[e].visible_nodes]]

FormattedFrames(story, duration_per_step) ==
  Flatten([k \in 1..Len(story) |-> FormattedFramesOf(k, story[k], duration_per_step)])

\* clip_groups[key].append(clip) putting the clip in front of its group
AppendToGroupInFront(groups, key, clip) ==
  IF \E g \in 1..Len(groups) : groups[g].key = key
  THEN [g \in 1..Len(groups) |->
          IF groups[g].key = key
          THEN [key |-> key, clips |-> <<clip>> \o groups[g].clips]
          ELSE groups[g]]
  ELSE Append(groups, [key |-> key, clips |-> <<clip>>])

\* line 405: clip_groups[(ind, text)].append(clip) on a defaultdict(list),
\* kept as the list of its items in insertion order
AppendToGroup(groups, key, clip) ==
  IF \E g \in 1..Len(groups) : groups[g].key = key
  THEN [g \in 1..Len(groups) |->
          IF groups[g].key = key
          THEN [key |-> key, clips |-> Append(groups[g].clips, clip)]
          ELSE groups[g]]
  ELSE Append(groups, [key |-> key, clips |-> <<clip>>])

RECURSIVE SumDurations(_)
SumDurations(cs) == IF cs = <<>> THEN 0 ELSE Head(cs).duration + SumDurations(Tail(cs))

\* the group clip with the freeze clip lasting the whole narration
GroupClipFreezeWholeAudio(group, audio_duration) ==
  LET video_duration == SumDurations(group.clips)
      freeze == IF audio_duration > video_duration THEN audio_duration ELSE 0
  IN  [key |-> group.key, segments |-> group.clips, freeze |-> freeze,
       duration |-> video_duration + freeze,
       audio |-> [text |-> group.key[2], duration |-> audio_duration]]

\* lines 413-430: concatenate the group, extend it by a frozen last frame
\* when the narration is longer, attach the narration
GroupClip(group, audio_duration) ==
  LET video_duration == SumDurations(group.clips)
      freeze == IF audio_duration > video_duration
                THEN audio_duration - video_duration ELSE 0
  IN  [key |-> group.key, segments |-> group.clips, freeze |-> freeze,
       duration |-> video_duration + freeze,
       audio |-> [text |-> group.key[2], duration |-> audio_duration]]

(***************************************************************************)
(* Stories handed to generate_video_from_story.  Frame k of a story has    *)
(* the k-th caption text and its own node labels; its connections have at  *)
(* most MaxSessionSources sources each and refer to nodes of the frame.    *)
(* Nothing splits these strings, so they are kept whole.                   *)
(***************************************************************************)
StoryNodeLabels ==
  << <<"X", "Y", "Z", "W", "V">>, <<"P", "Q", "R", "S", "T">>, <<"H", "K", "L", "M", "N">> >>

StoryNodes(k, n) == [j \in 1..n |-> <<"box", "black", StoryNodeLabels[k][j]>>]

SessionFrames(k) ==
  UNION {[text : {FrameTexts[k]},
          nodes : {StoryNodes(k, n)},
          connections : ConnectionsOver(0..(n - 1), MaxSessionSources, MaxSessionConns)] :
           n \in 0..MaxNodes}

RECURSIVE StoriesOfLength(_)
StoriesOfLength(n) ==
  IF n = 0 THEN {<<>>}
  ELSE {Append(st, f) : st \in StoriesOfLength(n - 1), f \in SessionFrames(n)}

Stories == UNION {StoriesOfLength(n) : n \in 1..MaxStoryFrames}

\* narration lengths get_audio may return, background track lengths
AudioDurations == {1, MaxAudio}

BackgroundDurations == {1, MaxBackground}

(***************************************************************************)
(* State.                                                                  *)
(***************************************************************************)
VARIABLES
  raw_output,          \* the string handed to parse_output
  wire_in,             \* the input description raw_output was written from
  parsed,              \* <<>> before the call, <<result>> after parse_output
  redecoded,           \* <<>> or <<result>> of parse_output on the re-encoded frames
  frame_in,            \* <<>> or <<story frame>> handed to the sequencer
  frame_sequence,      \* <<>> before the call, <<steps>> after
  last_frame_state,    \* the module global _last_frame_state
  pc,                  \* per session: where generate_video_from_story stands
  story_frames,        \* per session: the argument story_frames
  preserve_continuity, \* per session: the argument preserve_continuity
  formatted_frames,    \* per session: the steps handed to generate_frames
  i,                   \* per session: index of the next step to render
  clip_groups,         \* per session: clip_groups, in insertion order
  clips,               \* per session: the assembled group clips
  final_clip,          \* per session: <<>> or <<the clip returned>>
  resets,              \* per session: calls of reset_frame_state in the current video
  started,             \* per session: videos started so far
  raised,              \* per session: <<>> or <<the call that raised in the current video>>
  video_file,          \* testvideo.mp4: <<>> or <<what write_videofile wrote last>>
  jobs,                \* the collection jobs, in insertion order
  agent_jobs,          \* the collection agent_jobs, in insertion order
  now,                 \* the clock datetime.utcnow() reads
  workers,             \* per worker process: where run_worker_loop stands
  returned_to,         \* per job: the workers get_next_pending_job returned it to
  agent_returned_to,   \* per agent job: the calls of process_one_agent_job it was returned to
  similarity,          \* the cosine similarity of every two subheadings, in hundredths
  stored_subheadings,  \* similarity_checker.stored_subheadings
  generation,          \* the running or last call of generate_prompt_subheading
  index_in,            \* the node indices handed to _get_predefined_position
  position_out         \* what the calls of _get_predefined_position computed, in call order

decode_vars == <<raw_output, wire_in, parsed, redecoded>>

sequencer_vars == <<frame_in, frame_sequence>>

session_vars ==
  <<last_frame_state, pc, story_frames, preserve_continuity, formatted_frames, i,
    clip_groups, clips, final_clip, resets, started, raised, video_file>>

worker_vars == <<jobs, agent_jobs, now, workers, returned_to, agent_returned_to>>

subheading_vars == <<similarity, stored_subheadings, generation>>

layout_vars == <<index_in, position_out>>

vars ==
  <<decode_vars, sequencer_vars, session_vars, worker_vars, subheading_vars, layout_vars>>

\* the threads that may run a video session
Sessions == {1, 2}

NoDecode == raw_output = <<>> /\ wire_in = <<>> /\ parsed = <<>> /\ redecoded = <<>>

NoSequencer == frame_in = <<>> /\ frame_sequence = <<>>

\* the worker processes of the job layer
Workers == 1..MaxWorkers

\* no job inserted, no worker process started
NoWorkers ==
  /\ jobs = <<>>
  /\ agent_jobs = <<>>
  /\ now = 0
  /\ workers = [w \in Workers |-> [pc |-> "new", job |-> 0, success |-> FALSE, error |-> None]]
  /\ returned_to = <<>>
  /\ agent_returned_to = <<>>

\* backend/generate_subheading.py as imported: the checker of line 25 with
\* an empty store, no call running
NoSubheadings ==
  /\ similarity = <<>>
  /\ stored_subheadings = <<>>
  /\ generation = [pc |-> "idle", attempt |-> 0, result |-> None, stored_before |-> <<>>,
                   stored_after |-> <<>>]

\* _get_predefined_position not called
NoLayout == index_in = <<>> /\ position_out = <<>>

\* the module as imported: no session running
InitSessions ==
  /\ last_frame_state = InitialFrameState
  /\ pc = [s \in Sessions |-> "idle"]
  /\ story_frames = [s \in Sessions |-> <<>>]
  /\ preserve_continuity = [s \in Sessions |-> TRUE]
  /\ formatted_frames = [s \in Sessions |-> <<>>]
  /\ i = [s \in Sessions |-> 0]
  /\ clip_groups = [s \in Sessions |-> <<>>]
  /\ clips = [s \in Sessions |-> <<>>]
  /\ final_clip = [s \in Sessions |-> <<>>]
  /\ resets = [s \in Sessions |-> 0]
  /\ started = [s \in Sessions |-> 0]
  /\ raised = [s \in Sessions |-> <<>>]
  /\ video_file = <<>>

(***************************************************************************)
(* parse_output applied to every story of the wire family.                 *)
(***************************************************************************)
InitDecode ==
  /\ \E w \in WireInputs :
       /\ (w.malformed # <<>> => w.connections = <<>>)
       /\ wire_in = <<w>>
       /\ raw_output = WireOf(w)
  /\ parsed = <<>>
  /\ redecoded = <<>>
  /\ NoSequencer
  /\ InitSessions
  /\ NoWorkers
  /\ NoSubheadings
  /\ NoLayout

CallParseOutput ==
  /\ raw_output # <<>>
  /\ parsed = <<>>
  /\ parsed' = <<parse_output(raw_output)>>
  /\ UNCHANGED <<raw_output, wire_in, redecoded, sequencer_vars, session_vars, worker_vars, subheading_vars, layout_vars>>

\* a fixture generator: the list parse_output returned is written back in
\* the wire grammar and handed to parse_output again
CallParseOutputOnReEncoded ==
  /\ parsed # <<>>
  /\ parsed[1].err = NoError
  /\ redecoded = <<>>
  /\ redecoded' = <<parse_output(EncodeStoryFrames(parsed[1].frames))>>
  /\ UNCHANGED <<raw_output, wire_in, parsed, sequencer_vars, session_vars, worker_vars, subheading_vars, layout_vars>>

NextDecode == CallParseOutput \/ CallParseOutputOnReEncoded

SpecDecode == InitDecode /\ [][NextDecode]_vars

(***************************************************************************)
(* generate_animated_frame_sequence applied to every frame of the family.  *)
(***************************************************************************)
InitSequencer ==
  /\ NoDecode
  /\ \E f \in SequencerFrames : frame_in = <<f>>
  /\ frame_sequence = <<>>
  /\ InitSessions
  /\ NoWorkers
  /\ NoSubheadings
  /\ NoLayout

CallSequencer ==
  /\ frame_in # <<>>
  /\ frame_sequence = <<>>
  /\ frame_sequence' =
       <<generate_animated_frame_sequence(frame_in[1].nodes, frame_in[1].connections,
                                          frame_in[1].text, STEP_DURATION)>>
  /\ UNCHANGED <<decode_vars, frame_in, session_vars, worker_vars, subheading_vars, layout_vars>>

NextSequencer == CallSequencer

SpecSequencer == InitSequencer /\ [][NextSequencer]_vars

(***************************************************************************)
(* A video session: generate_video_from_story -> generate_frames.          *)
(***************************************************************************)
\* generate_video_from_story(story, preserve_continuity=preserve) up to the
\* first generate_frame call: the story is expanded (lines 522-551), then
\* generate_frames resets the module state when preserve_continuity is set
\* (lines 378-379) and starts with empty clip groups
GenerateVideoFromStory(s, pool) ==
  /\ pc[s] = "idle"
  /\ started[s] < MaxSessions
  /\ started' = [started EXCEPT ![s] = @ + 1]
  /\ \E story \in pool, preserve \in BOOLEAN :
       /\ story_frames' = [story_frames EXCEPT ![s] = story]
       /\ preserve_continuity' = [preserve_continuity EXCEPT ![s] = preserve]
       /\ formatted_frames' =
            [formatted_frames EXCEPT ![s] = FormattedFrames(story, STEP_DURATION)]
       /\ last_frame_state' =
            IF preserve THEN reset_frame_state(last_frame_state) ELSE last_frame_state
       /\ resets' = [resets EXCEPT ![s] = IF preserve THEN 1 ELSE 0]
  /\ i' = [i EXCEPT ![s] = 0]
  /\ clip_groups' = [clip_groups EXCEPT ![s] = <<>>]
  /\ clips' = [clips EXCEPT ![s] = <<>>]
  /\ final_clip' = [final_clip EXCEPT ![s] = <<>>]
  /\ pc' = [pc EXCEPT ![s] = "render"]
  /\ raised' = [raised EXCEPT ![s] = <<>>]
  /\ UNCHANGED <<subheading_vars, layout_vars, worker_vars, decode_vars, sequencer_vars, video_file>>

\* the exception of a collaborator call retried: the session stays where it
\* is and makes the call again
RaiseAndRetry(s, call) ==
  /\ raised' = [raised EXCEPT ![s] = <<call>>]
  /\ UNCHANGED <<pc, story_frames, preserve_continuity, formatted_frames, i, clip_groups,
                 clips, final_clip, resets>>

\* an exception raised inside generate_frames: nothing catches it in
\* generate_frames, generate_video_from_story or engage_workers, so the
\* locals of the three are gone and no clip is returned
Raise(s, call) ==
  /\ raised' = [raised EXCEPT ![s] = <<call>>]
  /\ pc' = [pc EXCEPT ![s] = "failed"]
  /\ story_frames' = [story_frames EXCEPT ![s] = <<>>]
  /\ preserve_continuity' = [preserve_continuity EXCEPT ![s] = TRUE]
  /\ formatted_frames' = [formatted_frames EXCEPT ![s] = <<>>]
  /\ i' = [i EXCEPT ![s] = 0]
  /\ clip_groups' = [clip_groups EXCEPT ![s] = <<>>]
  /\ clips' = [clips EXCEPT ![s] = <<>>]
  /\ final_clip' = [final_clip EXCEPT ![s] = <<>>]
  /\ resets' = [resets EXCEPT ![s] = 0]

\* one iteration of the loop of lines 387-405: generate_frame on the next
\* step, its clip appended to the group of its story frame.  generate_frame
\* raises on a malformed step, and its calls of matplotlib and moviepy
\* (savefig, ImageClip) may raise as well.
GenerateFrameStep(s) ==
  /\ pc[s] = "render"
  /\ LET frame_data == formatted_frames[s][i[s] + 1]
         preserve_flag == preserve_continuity[s] /\ i[s] > 0
         call == generate_frame(last_frame_state, frame_data.nodes, frame_data.connections,
                                frame_data.duration, preserve_flag, frame_data.text,
                                frame_data.visible_nodes)
     IN  \E rendered \in BOOLEAN :
           IF call.err # NoError \/ ~rendered
           THEN /\ Raise(s, "render")
                /\ UNCHANGED last_frame_state
           ELSE /\ last_frame_state' = call.state
                /\ clip_groups' =
                     [clip_groups EXCEPT ![s] =
                        AppendToGroup(@, <<frame_data.ind, frame_data.text>>,
                                      [step |-> i[s]] @@ call.clip)]
                /\ i' = [i EXCEPT ![s] = @ + 1]
                /\ pc' = [pc EXCEPT ![s] =
                            IF i[s] + 1 = Len(formatted_frames[s]) THEN "assemble" ELSE "render"]
                /\ UNCHANGED <<story_frames, preserve_continuity, formatted_frames, clips,
                               final_clip, resets, raised>>
  /\ UNCHANGED <<subheading_vars, layout_vars, worker_vars, decode_vars, sequencer_vars, started, video_file>>

\* one iteration of the loop of lines 409-432: the next group is
\* concatenated and bound to its narration, whose length get_audio decides;
\* get_audio (the text-to-speech service, the mp3 file) may raise
AssembleGroup(s) ==
  /\ pc[s] = "assemble"
  /\ \/ /\ \E audio_duration \in AudioDurations :
             clips' = [clips EXCEPT ![s] =
                         Append(@, GroupClip(clip_groups[s][Len(@) + 1], audio_duration))]
        /\ pc' = [pc EXCEPT ![s] =
                    IF Len(clips[s]) + 1 = Len(clip_groups[s]) THEN "mix" ELSE "assemble"]
        /\ UNCHANGED <<story_frames, preserve_continuity, formatted_frames, i, clip_groups,
                       final_clip, resets, raised>>
     \/ Raise(s, "narration")
  /\ UNCHANGED <<subheading_vars, layout_vars, worker_vars, decode_vars, sequencer_vars, last_frame_state, started, video_file>>

\* lines 436-451: the group clips concatenated, the background track cut to
\* the video duration with subclipped(0, video_duration) and mixed in.
\* subclipped past the end of the track either raises ValueError or yields
\* a clip that declares the duration and falls silent where the track ends,
\* depending on the moviepy release.
MixBackground(s) ==
  /\ pc[s] = "mix"
  /\ LET video_duration == SumDurations(clips[s])
     IN  \E track \in BackgroundDurations, strict \in BOOLEAN :
           IF track < video_duration /\ strict
           THEN Raise(s, "background")
           ELSE /\ pc' = [pc EXCEPT ![s] = "done"]
                /\ final_clip' =
                     [final_clip EXCEPT ![s] =
                        <<[clips |-> clips[s],
                           duration |-> video_duration,
                           narration |-> [k \in 1..Len(clips[s]) |-> clips[s][k].audio],
                           background |-> [track |-> track,
                                           duration |-> video_duration,
                                           audible |-> Min(track, video_duration)]]>>]
                /\ UNCHANGED <<story_frames, preserve_continuity, formatted_frames, i,
                               clip_groups, clips, resets, raised>>
  /\ UNCHANGED <<subheading_vars, layout_vars, worker_vars, decode_vars, sequencer_vars, last_frame_state, started, video_file>>

\* engage_workers, lines 575-577: the clip generate_video_from_story
\* returned is written to testvideo.mp4
WriteVideoFile(s) ==
  /\ pc[s] = "done"
  /\ video_file' = <<[session |-> s, video |-> started[s],
                      duration |-> final_clip[s][1].duration]>>
  /\ pc' = [pc EXCEPT ![s] = "written"]
  /\ UNCHANGED <<subheading_vars, layout_vars, worker_vars, decode_vars, sequencer_vars, last_frame_state, story_frames,
                 preserve_continuity, formatted_frames, i, clip_groups, clips, final_clip,
                 resets, started, raised>>

\* engage_workers has returned or raised; its locals are gone and the
\* thread may start the next video
ReturnFromSession(s) ==
  /\ pc[s] \in {"written", "failed"}
  /\ pc' = [pc EXCEPT ![s] = "idle"]
  /\ story_frames' = [story_frames EXCEPT ![s] = <<>>]
  /\ preserve_continuity' = [preserve_continuity EXCEPT ![s] = TRUE]
  /\ formatted_frames' = [formatted_frames EXCEPT ![s] = <<>>]
  /\ i' = [i EXCEPT ![s] = 0]
  /\ clip_groups' = [clip_groups EXCEPT ![s] = <<>>]
  /\ clips' = [clips EXCEPT ![s] = <<>>]
  /\ final_clip' = [final_clip EXCEPT ![s] = <<>>]
  /\ resets' = [resets EXCEPT ![s] = 0]
  /\ UNCHANGED <<subheading_vars, layout_vars, worker_vars, decode_vars, sequencer_vars, last_frame_state, started, raised, video_file>>

Init == NoDecode /\ NoSequencer /\ InitSessions /\ NoWorkers /\ NoSubheadings /\ NoLayout

\* one video generated in a fresh process
Next ==
  \/ GenerateVideoFromStory(1, Stories)
  \/ GenerateFrameStep(1)
  \/ AssembleGroup(1)
  \/ MixBackground(1)

Spec == Init /\ [][Next]_vars

\* one worker generating one video after the other (single-frame stories)
NextSessions ==
  \/ GenerateVideoFromStory(1, StoriesOfLength(1))
  \/ GenerateFrameStep(1)
  \/ AssembleGroup(1)
  \/ MixBackground(1)
  \/ WriteVideoFile(1)
  \/ ReturnFromSession(1)

SpecSessions == Init /\ [][NextSessions]_vars

\* the render loops of two threads of one process, each generating one
\* video from a single-frame story
NextConcurrent ==
  \E s \in Sessions :
    \/ GenerateVideoFromStory(s, StoriesOfLength(1))
    \/ GenerateFrameStep(s)

SpecConcurrent == Init /\ [][NextConcurrent]_vars

(***************************************************************************)
(* The job layer: backend/db.py, backend/app.py and workflow.py.  A worker *)
(* is one process running workflow.py; the collections are shared by all   *)
(* workers and the API server.  A video generation (main.main) is taken    *)
(* here by its outcome: it returns the file path or it raises.             *)
(***************************************************************************)
\* workflow.py line 13
YOUTUBE_INSTANCE == None

\* db.create_job, job_type NORMAL
NewJob(created_at) ==
  [status |-> "pending", created_at |-> created_at, description |-> None,
   video_url |-> None, error |-> None]

\* db.create_job, any other job_type
NewAgentJob(created_at) ==
  [status |-> "pending", created_at |-> created_at, description |-> None,
   video_url |-> None, error |-> None]

\* the documents the filter {"status": "pending"} matches
PendingJobs(collection) ==
  {j \in 1..Len(collection) : collection[j].status = "pending"}

\* the filter with sort without "created_at": any match
AnyPendingJob(collection) == PendingJobs(collection)

\* the filter {"status": "pending"} with sort=[("created_at", 1)]: a pending
\* job with the least created_at
OldestPendingJob(collection) ==
  {j \in PendingJobs(collection) :
     \A k \in PendingJobs(collection) : collection[j].created_at <= collection[k].created_at}

\* find_one in place of find_one_and_update: the document is left as it is
find_one_without_update(collection, j) == collection

\* find_one_and_update with {"$set": {"status": "running"}} on document j
find_one_and_update(collection, j) ==
  [collection EXCEPT ![j].status = "running"]

\* agent_jobs_col.find_one({}, sort=[("created_at", 1)]): an agent job with
\* the least created_at
OldestAgentJob(collection) ==
  {j \in 1..Len(collection) :
     \A k \in 1..Len(collection) : collection[j].created_at <= collection[k].created_at}

\* update_job_result
update_job_result(collection, j, description, video_url) ==
  [collection EXCEPT ![j].status = "done", ![j].description = description,
                     ![j].video_url = video_url, ![j].error = None]

\* the uncaught exception of a worker: run_worker_loop and the process end
WorkerRaises(w, error) ==
  workers' = [workers EXCEPT ![w].pc = "exited", ![w].error = error]

\* POST /api/jobs: create_job_route -> db.create_job
CreateJob ==
  /\ Len(jobs) < MaxJobs
  /\ jobs' = Append(jobs, NewJob(now))
  /\ returned_to' = Append(returned_to, <<>>)
  /\ UNCHANGED <<agent_jobs, agent_returned_to, now, workers, decode_vars, sequencer_vars, session_vars, subheading_vars, layout_vars>>

\* db.create_job(..., job_type="AGENT")
CreateAgentJob ==
  /\ Len(agent_jobs) < MaxAgentJobs
  /\ agent_jobs' = Append(agent_jobs, NewAgentJob(now))
  /\ agent_returned_to' = Append(agent_returned_to, <<>>)
  /\ UNCHANGED <<jobs, now, workers, returned_to, decode_vars, sequencer_vars, session_vars, subheading_vars, layout_vars>>

\* time passes
Tick ==
  /\ now < MaxTime
  /\ now' = now + 1
  /\ UNCHANGED <<jobs, agent_jobs, agent_returned_to, workers, returned_to, decode_vars, sequencer_vars,
                 session_vars, subheading_vars, layout_vars>>

\* "python workflow.py": the imports of lines 6-10, then run_worker_loop.
\* "from video_uploader import upload_video, YOUTUBE_INSTANCE" raises
\* ImportError with the video_uploader.py of this repository, which defines
\* no YOUTUBE_INSTANCE; it succeeds with a video_uploader that defines one.
StartWorker(w) ==
  /\ workers[w].pc = "new"
  /\ \E imported \in BOOLEAN :
       IF imported THEN workers' = [workers EXCEPT ![w].pc = "poll"]
       ELSE WorkerRaises(w, "ImportError")
  /\ UNCHANGED <<jobs, agent_jobs, agent_returned_to, now, returned_to, decode_vars, sequencer_vars,
                 session_vars, subheading_vars, layout_vars>>

\* process_one_job, lines 42-45: get_next_pending_job() as one atomic
\* find_one_and_update of the database
ClaimJob(w) ==
  /\ workers[w].pc = "poll"
  /\ IF PendingJobs(jobs) = {}
     THEN /\ workers' = [workers EXCEPT ![w].pc = "agent", ![w].success = FALSE]
          /\ UNCHANGED <<jobs, returned_to>>
     ELSE \E j \in OldestPendingJob(jobs) :
            /\ jobs' = find_one_and_update(jobs, j)
            /\ returned_to' = [returned_to EXCEPT ![j] = Append(@, w)]
            /\ workers' = [workers EXCEPT ![w].pc = "generate", ![w].job = j]
  /\ UNCHANGED <<agent_jobs, agent_returned_to, now, decode_vars, sequencer_vars, session_vars, subheading_vars, layout_vars>>

\* process_one_job, lines 47-64: main(prompt_text, file_path) and
\* update_job_result; an exception of main leaves process_one_job and
\* run_worker_loop, which have no handler
FinishJob(w) ==
  /\ workers[w].pc = "generate"
  /\ \E generated \in BOOLEAN :
       IF generated
       THEN /\ jobs' = update_job_result(jobs, workers[w].job, "dummy descrption",
                                         "testvideo.mp4")
            /\ workers' = [workers EXCEPT ![w].pc = "agent", ![w].job = 0,
                                          ![w].success = TRUE]
       ELSE /\ WorkerRaises(w, "generation")
            /\ UNCHANGED jobs
  /\ UNCHANGED <<agent_jobs, agent_returned_to, now, returned_to, decode_vars, sequencer_vars, session_vars, subheading_vars, layout_vars>>

\* process_one_agent_job and lines 108-110 of run_worker_loop: the oldest
\* agent job, when its created_at is in the past, gets a video generated
\* and then "print(..., video_id)" reads a local that is bound only when
\* YOUTUBE_INSTANCE is not None
ProcessAgentJob(w) ==
  /\ workers[w].pc = "agent"
  /\ LET due == {j \in OldestAgentJob(agent_jobs) : agent_jobs[j].created_at < now}
     IN  IF due = {}
         THEN /\ workers' = [workers EXCEPT ![w].pc = IF workers[w].success THEN "poll"
                                                     ELSE "sleep"]
              /\ UNCHANGED agent_returned_to
         ELSE \E j \in due, generated \in BOOLEAN :
                /\ agent_returned_to' =
                     [agent_returned_to EXCEPT
                        ![j] = Append(@, [worker |-> w, generated |-> generated])]
                /\ IF ~generated THEN WorkerRaises(w, "generation")
                   ELSE IF YOUTUBE_INSTANCE = None THEN WorkerRaises(w, "UnboundLocalError")
                   ELSE workers' = [workers EXCEPT ![w].pc = IF workers[w].success THEN "poll"
                                                            ELSE "sleep"]
  /\ UNCHANGED <<jobs, agent_jobs, now, returned_to, decode_vars, sequencer_vars,
                 session_vars, subheading_vars, layout_vars>>

\* time.sleep(poll_interval)
Sleep(w) ==
  /\ workers[w].pc = "sleep"
  /\ workers' = [workers EXCEPT ![w].pc = "poll"]
  /\ UNCHANGED <<jobs, agent_jobs, agent_returned_to, now, returned_to, decode_vars, sequencer_vars,
                 session_vars, subheading_vars, layout_vars>>

NextWorkers ==
  \/ CreateJob
  \/ CreateAgentJob
  \/ Tick
  \/ \E w \in Workers :
       \/ StartWorker(w)
       \/ ClaimJob(w)
       \/ FinishJob(w)
       \/ ProcessAgentJob(w)
       \/ Sleep(w)

SpecWorkers == Init /\ [][NextWorkers]_vars

(***************************************************************************)
(* backend/generate_subheading.py and SemanticSimilarityChecker.           *)
(* similarity[a, b] is the cosine similarity of the embeddings of the      *)
(* texts a and b in hundredths, the same in both orders and 100 for a text *)
(* and itself.                                                             *)
(***************************************************************************)
\* SemanticSimilarityChecker(threshold=0.75)
THRESHOLD == 75

\* generate_prompt_subheading(base_prompt, max_attempts=10)
MAX_ATTEMPTS == 10

\* the texts the model may generate
SubheadingTexts == <<"Unsupervised Learning", "Clustering", "Neural Networks",
                     "Decision Trees", "Reinforcement Learning">>

Subheadings == {SubheadingTexts[k] : k \in 1..MaxSubheadings}

\* the scores two different subheadings may have: negative, and exactly the
\* threshold
Scores == {-10, THRESHOLD}

SimilarityMatrices ==
  LET Pairs == {{a, b} : a \in Subheadings, b \in Subheadings} \ {{a} : a \in Subheadings}
  IN  {[p \in Subheadings \X Subheadings |->
          IF p[1] = p[2] THEN 100 ELSE f[{p[1], p[2]}]] : f \in [Pairs -> Scores]}

RECURSIVE MostSimilar(_, _, _)
\* the loop of is_similar_to_any_stored over the first n stored subheadings
MostSimilar(stored, new_subheading, n) ==
  IF n = 0 THEN [max_similarity |-> 0, most_similar |-> None]
  ELSE LET before == MostSimilar(stored, new_subheading, n - 1)
           score == similarity[new_subheading, stored[n]]
       IN  IF score > before.max_similarity
           THEN [max_similarity |-> score, most_similar |-> stored[n]]
           ELSE before

\* is_similar_to_any_stored with "max_similarity > self.threshold"
is_similar_to_any_stored_above(stored, new_subheading) ==
  IF stored = <<>> THEN FALSE
  ELSE MostSimilar(stored, new_subheading, Len(stored)).max_similarity > THRESHOLD

\* is_similar_to_any_stored(new_subheading)[0]
is_similar_to_any_stored(stored, new_subheading) ==
  IF stored = <<>> THEN FALSE
  ELSE MostSimilar(stored, new_subheading, Len(stored)).max_similarity >= THRESHOLD

\* add_subheading(subheading): the list afterwards
add_subheading(stored, subheading) ==
  IF is_similar_to_any_stored(stored, subheading) THEN stored
  ELSE Append(stored, subheading)

\* what call_openrouter_api returns, after the clean-up of lines 145-157:
\* None, an empty text, or a subheading
ApiOutputs == {"None", "empty"} \cup Subheadings

InitSubheadings ==
  /\ NoDecode
  /\ NoSequencer
  /\ InitSessions
  /\ NoWorkers
  /\ NoLayout
  /\ similarity \in SimilarityMatrices
  /\ stored_subheadings = <<>>
  /\ generation = [pc |-> "idle", attempt |-> 0, result |-> None, stored_before |-> <<>>,
                   stored_after |-> <<>>]

\* generate_prompt_subheading is called
CallGeneratePromptSubheading ==
  /\ generation.pc # "loop"
  /\ generation' = [pc |-> "loop", attempt |-> 0, result |-> None,
                    stored_before |-> stored_subheadings, stored_after |-> <<>>]
  /\ UNCHANGED <<similarity, stored_subheadings, decode_vars, sequencer_vars, session_vars,
                 worker_vars, layout_vars>>

\* one iteration of "for attempt in range(1, max_attempts + 1)", and the
\* return None after the last one
GenerationAttempt ==
  /\ generation.pc = "loop"
  /\ \E generated \in ApiOutputs :
       LET attempt == generation.attempt + 1
           rejected == \/ generated \in {"None", "empty"}
                       \/ is_similar_to_any_stored(stored_subheadings, generated)
       IN  IF rejected
           THEN /\ generation' = [generation EXCEPT
                                    !.attempt = attempt,
                                    !.pc = IF attempt = MAX_ATTEMPTS THEN "returned" ELSE "loop",
                                    !.stored_after = IF attempt = MAX_ATTEMPTS
                                                     THEN stored_subheadings ELSE <<>>]
                /\ UNCHANGED stored_subheadings
           ELSE /\ stored_subheadings' = add_subheading(stored_subheadings, generated)
                /\ generation' = [generation EXCEPT !.attempt = attempt, !.pc = "returned",
                                                    !.result = generated,
                                                    !.stored_after = stored_subheadings']
  /\ UNCHANGED <<similarity, decode_vars, sequencer_vars, session_vars, worker_vars, layout_vars>>

\* similarity_checker.add_subheading called by another client of the module
AddSubheading ==
  /\ generation.pc # "loop"
  /\ \E subheading \in Subheadings :
       stored_subheadings' = add_subheading(stored_subheadings, subheading)
  /\ UNCHANGED <<similarity, generation, decode_vars, sequencer_vars, session_vars,
                 worker_vars, layout_vars>>

\* clear_all_subheadings -> clear_stored_subheadings
ClearStoredSubheadings ==
  /\ generation.pc # "loop"
  /\ stored_subheadings' = <<>>
  /\ UNCHANGED <<similarity, generation, decode_vars, sequencer_vars, session_vars,
                 worker_vars, layout_vars>>

NextSubheadings ==
  \/ CallGeneratePromptSubheading
  \/ GenerationAttempt
  \/ AddSubheading
  \/ ClearStoredSubheadings

SpecSubheadings == InitSubheadings /\ [][NextSubheadings]_vars

(***************************************************************************)
(* _get_predefined_position called on two node indices, one after the      *)
(* other.                                                                  *)
(***************************************************************************)
PositionIndices == 0..MaxPositionIndex

InitLayout ==
  /\ NoDecode
  /\ NoSequencer
  /\ InitSessions
  /\ NoWorkers
  /\ NoSubheadings
  /\ \E a \in PositionIndices, b \in PositionIndices :
       a < b /\ index_in = <<a, b>>
  /\ position_out = <<>>

CallGetPredefinedPosition ==
  /\ Len(position_out) < Len(index_in)
  /\ position_out' =
       Append(position_out, get_predefined_position(index_in[Len(position_out) + 1]))
  /\ UNCHANGED <<index_in, decode_vars, sequencer_vars, session_vars, worker_vars,
                 subheading_vars>>

NextLayout == CallGetPredefinedPosition

SpecLayout == InitLayout /\ [][NextLayout]_vars

(***************************************************************************)
(* Properties of parse_output (SpecDecode).                                *)
(***************************************************************************)
Decoded == parsed # <<>>

\* the graph frames of the input, in input order
GraphFrameIndices(w) == SortedSeq({k \in 1..Len(w.kinds) : w.kinds[k] = "graph"})

\* C1: parse_output returns one StoryFrame per '$'-separated frame, in input
\* order; a frame whose nodeSpec and connSpec are both NO_NODE yields a
\* StoryFrame with no nodes, no connections and the frame's second field as
\* text.
C1_OneStoryFramePerFrame ==
  (Decoded /\ parsed[1].err = NoError) =>
    LET w == wire_in[1]
        frames == parsed[1].frames
    IN  /\ Len(frames) = Len(w.kinds)
        /\ \A k \in 1..Len(w.kinds) :
             /\ frames[k].text = FrameText(k, w.kinds[k])
             /\ w.kinds[k] = "caption" =>
                  frames[k].nodes = <<>> /\ frames[k].connections = <<>>

\* the decoder returned although the input holds a caption-only frame
C1_CaptionFrameDecoded ==
  /\ Decoded
  /\ raw_output = IntroExample
  /\ parsed[1].err = NoError

\* C2: a frame with k node entries and m connection entries decodes to a
\* StoryFrame with exactly those k (shape, color, label) nodes in declared
\* order and those m connections in declared order, sources and target as
\* integers.
C2_NodesAndConnectionsDecoded ==
  (/\ Decoded
   /\ wire_in[1].fields = 4
   /\ wire_in[1].malformed = <<>>
   /\ wire_in[1].nodes # <<>>
   /\ wire_in[1].connections # <<>>) =>
    LET w == wire_in[1]
        graph == GraphFrameIndices(w)
        frames == parsed[1].frames
    IN  /\ parsed[1].err = NoError
        /\ Len(frames) = Len(graph)
        /\ \A j \in 1..Len(graph) :
             /\ frames[j].nodes = w.nodes
             /\ \A k \in 1..Len(w.nodes) : Len(frames[j].nodes[k]) = 3
             /\ frames[j].connections = w.connections

\* "1?A?box:black:X,box:black:Y?0:1" decoded: 2 nodes, sources (0,), target 1
C2_TwoNodeExampleDecoded ==
  /\ Decoded
  /\ raw_output = TwoNodeExample
  /\ parsed[1].err = NoError
  /\ Len(parsed[1].frames) = 1
  /\ Len(parsed[1].frames[1].nodes) = 2
  /\ parsed[1].frames[1].connections = << << <<0>>, 1 >> >>

\* a frame with two connections, one of them with two sources, decoded
C2_MultiSourceDecoded ==
  /\ Decoded
  /\ parsed[1].err = NoError
  /\ \E j \in 1..Len(parsed[1].frames) :
       /\ Len(parsed[1].frames[j].connections) = 2
       /\ Len(parsed[1].frames[j].connections[2][1]) = 2

(***************************************************************************)
(* Properties of generate_animated_frame_sequence (SpecSequencer).         *)
(***************************************************************************)
Sequenced == frame_sequence # <<>>

\* every index of every connection refers to a node of the frame
IndicesInRange(f) ==
  \A c \in 1..Len(f.connections) :
    /\ f.connections[c][2] \in 0..(Len(f.nodes) - 1)
    /\ \A k \in 1..Len(f.connections[c][1]) :
         f.connections[c][1][k] \in 0..(Len(f.nodes) - 1)

IsPrefix(a, b) == Len(a) <= Len(b) /\ SubSeq(b, 1, Len(a)) = a

\* C3: for a frame with connections, all indices in range, every emitted
\* step has every source and target of every connection of its connection
\* list in its visible_nodes.
C3_ConnectionsReferenceVisibleNodes ==
  (Sequenced /\ frame_in[1].connections # <<>> /\ IndicesInRange(frame_in[1])) =>
    \A s \in 1..Len(frame_sequence[1]) :
      LET step == frame_sequence[1][s]
      IN  \A c \in 1..Len(step.connections) :
            /\ step.connections[c][2] \in step.visible_nodes
            /\ \A k \in 1..Len(step.connections[c][1]) :
                 step.connections[c][1][k] \in step.visible_nodes

\* a frame with two connections in range was expanded and its last step
\* shows both
C3_TwoConnectionsRevealed ==
  /\ Sequenced
  /\ IndicesInRange(frame_in[1])
  /\ Len(frame_in[1].connections) = 2
  /\ Len(frame_sequence[1][Len(frame_sequence[1])].connections) = 2
  /\ Cardinality(frame_sequence[1][Len(frame_sequence[1])].visible_nodes) = 3

\* C4: inside the step sequence of one frame, visible_nodes of a step is a
\* subset of visible_nodes of the next step and its connection list is a
\* prefix of the next step's.
C4_VisibilityNeverShrinks ==
  Sequenced =>
    \A s \in 1..(Len(frame_sequence[1]) - 1) :
      /\ frame_sequence[1][s].visible_nodes \subseteq frame_sequence[1][s + 1].visible_nodes
      /\ IsPrefix(frame_sequence[1][s].connections, frame_sequence[1][s + 1].connections)

\* a sequence of at least three steps whose visibility grew
C4_SeveralStepsEmitted ==
  /\ Sequenced
  /\ Len(frame_sequence[1]) >= 3
  /\ frame_sequence[1][1].visible_nodes # frame_sequence[1][3].visible_nodes

(***************************************************************************)
(* Properties of a video session (Spec, SpecSessions, SpecConcurrent).     *)
(***************************************************************************)
\* the first clip rendered for the group g of session 1, the step it was
\* rendered from, and the story frames B (its own) and A (the one before)
FirstClip(g) == clip_groups[1][g].clips[1]

FirstStep(g) == formatted_frames[1][FirstClip(g).step + 1]

FrameB(g) == story_frames[1][clip_groups[1][g].key[1] + 1]

FrameA(g) == story_frames[1][clip_groups[1][g].key[1]]

C6_PositionsPermanent ==
  [][LET before == last_frame_state.positions
         after == last_frame_state'.positions
     IN  /\ (~before.is_none /\ ~after.is_none) =>
              (\A k \in DOMAIN before.value :
                 k \in DOMAIN after.value /\ after.value[k] = before.value[k])
         /\ ~after.is_none =>
              (\A k \in DOMAIN after.value : after.value[k] = predefined_position(k))
    ]_vars

\* a frame with one node rendered after a frame with three: indices 1 and 2
\* are still bound
C6_EarlierIndicesStillBound ==
  /\ ~last_frame_state.positions.is_none
  /\ ~last_frame_state.nodes.is_none
  /\ Len(last_frame_state.nodes.value) = 1
  /\ DOMAIN last_frame_state.positions.value = {0, 1, 2}

\* the steps of the timeline, group after group, segment after segment
TimelineSteps(timeline) ==
  Flatten([g \in 1..Len(timeline) |->
             [j \in 1..Len(timeline[g].segments) |-> timeline[g].segments[j].step]])

\* C7: the final timeline holds the rendered segment of every step exactly
\* once, grouped by StoryFrame index in ascending story order, the steps of
\* a group in the order they were emitted.
C7_TimelineInStoryOrder ==
  pc[1] = "done" =>
    LET timeline == final_clip[1][1].clips
    IN  /\ Len(timeline) = Len(story_frames[1])
        /\ TimelineSteps(timeline) = [k \in 1..Len(formatted_frames[1]) |-> k - 1]
        /\ \A g \in 1..Len(timeline) :
             /\ timeline[g].key[1] = g - 1
             /\ \A j \in 1..Len(timeline[g].segments) :
                  LET segment == timeline[g].segments[j]
                  IN  /\ formatted_frames[1][segment.step + 1].ind = g - 1
                      /\ segment.frame_text = formatted_frames[1][segment.step + 1].text

\* a finished video of two story frames with several steps each
C7_TwoGroupsAssembled ==
  /\ pc[1] = "done"
  /\ Len(final_clip[1][1].clips) = 2
  /\ Len(final_clip[1][1].clips[1].segments) >= 2
  /\ Len(final_clip[1][1].clips[2].segments) >= 2

\* C8: an assembled group clip lasts max(sum of its step durations,
\* narration duration); a longer narration extends the clip by exactly the
\* deficit with a frozen last frame, and the narration keeps its length.
C8_GroupClipDuration ==
  \A g \in 1..Len(clips[1]) :
    LET group_clip == clips[1][g]
        video == Len(group_clip.segments) * STEP_DURATION
        audio == group_clip.audio.duration
    IN  /\ \A j \in 1..Len(group_clip.segments) :
             group_clip.segments[j].duration = STEP_DURATION
        /\ group_clip.duration = IF audio > video THEN audio ELSE video
        /\ group_clip.freeze = IF audio > video THEN audio - video ELSE 0
        /\ audio \in AudioDurations

\* a group of two steps with the longest narration: extended by the deficit
C8_ClipExtendedToNarration ==
  /\ Len(clips[1]) >= 1
  /\ Len(clips[1][1].segments) = 2
  /\ clips[1][1].audio.duration = MaxAudio
  /\ clips[1][1].duration = MaxAudio
  /\ clips[1][1].freeze = MaxAudio - 2

RECURSIVE RunAlone(_, _, _)
\* the first n steps of a session rendered by a process that runs nothing
\* else: the module state after them and the clips
RunAlone(frames, preserve, n) ==
  IF n = 0
  THEN [state |-> IF preserve THEN reset_frame_state(InitialFrameState)
                  ELSE InitialFrameState,
        clips |-> <<>>]
  ELSE LET before == RunAlone(frames, preserve, n - 1)
           call == generate_frame(before.state, frames[n].nodes, frames[n].connections,
                                  frames[n].duration, preserve /\ n > 1, frames[n].text,
                                  frames[n].visible_nodes)
       IN  [state |-> call.state, clips |-> Append(before.clips, call.clip)]

AtFirstStep == pc[1] = "render" /\ i[1] = 0

StateEmpty ==
  /\ last_frame_state.positions.is_none
  /\ last_frame_state.nodes.is_none
  /\ last_frame_state.graph.is_none

\* C10: every video session, for either value of preserve_continuity,
\* starts with empty layout and continuity state: when it is about to render
\* its first step, no position, node record or graph of an earlier session
\* is left in the module state.
C10_EverySessionStartsEmpty ==
  AtFirstStep => StateEmpty

(***************************************************************************)
(* Error handling of parse_output (SpecDecode).  parse_output raises only  *)
(* Python's IndexError and ValueError; any exception counts below as the   *)
(* decoding failure the error taxonomy names.                              *)
(***************************************************************************)
DecodingFailed == parsed[1].err # NoError /\ parsed[1].frames = <<>>

\* the input has a graph frame written with 4 fields and a well-formed
\* connection list
WellFormedGraphFrame ==
  /\ \E k \in 1..Len(wire_in[1].kinds) : wire_in[1].kinds[k] = "graph"
  /\ wire_in[1].fields = 4
  /\ wire_in[1].malformed = <<>>

\* C11: decoding fails whenever some connection of a frame has a source or
\* target index greater than or equal to the frame's node count; no
\* StoryFrame is returned for such a frame.
C11_OutOfRangeIndexRejected ==
  (/\ Decoded
   /\ WellFormedGraphFrame
   /\ wire_in[1].nodes # <<>>
   /\ ~IndicesInRange(wire_in[1])) =>
    DecodingFailed

\* C12: decoding fails for every frame that does not split on '?' into
\* exactly 4 fields, with fewer and with more than 4 fields, and returns no
\* StoryFrame list.
C12_FieldCountRejected ==
  (/\ Decoded
   /\ \E k \in 1..Len(wire_in[1].kinds) : wire_in[1].kinds[k] = "graph"
   /\ wire_in[1].fields # 4) =>
    DecodingFailed

\* C13: a frame whose nodeSpec is NO_NODE and whose connSpec is not NO_NODE
\* makes decoding fail; it is not accepted as a frame with empty nodes.
C13_SentinelMismatchRejected ==
  (/\ Decoded
   /\ \E k \in 1..Len(wire_in[1].kinds) : wire_in[1].kinds[k] = "graph"
   /\ wire_in[1].fields = 4
   /\ wire_in[1].nodes = <<>>
   /\ (wire_in[1].connections # <<>> \/ wire_in[1].malformed # <<>>)) =>
    DecodingFailed

\* C14: the StoryFrame list decoded from a story, caption-only frames
\* included, written back in the wire grammar and decoded again, is the
\* list itself.
C14_RoundTrip ==
  redecoded # <<>> => redecoded[1] = parsed[1]

(***************************************************************************)
(* Failure of a collaborator call during a session (SpecSessions).         *)
(***************************************************************************)
\* testvideo.mp4 was written by the video the session is generating now
FileOfCurrentVideo(s) ==
  /\ video_file # <<>>
  /\ video_file[1].session = s
  /\ video_file[1].video = started[s]

\* C15: once a render or narration call of a session has raised, the
\* session is over (the call is not made again, no later step runs), no
\* final clip is returned and engage_workers writes no video file for it.
C15_FailureEmitsNoVideo ==
  raised[1] # <<>> =>
    /\ pc[1] \in {"failed", "idle"}
    /\ final_clip[1] = <<>>
    /\ ~FileOfCurrentVideo(1)

\* the second video of the worker failed in get_audio; the file on disk is
\* still the one of the first video
C15_NarrationFailedAfterGoodVideo ==
  /\ raised[1] = <<"narration">>
  /\ pc[1] = "failed"
  /\ started[1] = 2
  /\ video_file # <<>>
  /\ video_file[1].video = 1

(***************************************************************************)
(* Properties of the job layer (SpecWorkers).                              *)
(***************************************************************************)
\* C16: when the video generation of a claimed job has failed, the job ends
\* with status 'error' and the error message in its error field; it does
\* not stay 'running'.
C16_FailedJobMarkedError ==
  \A w \in Workers :
    (workers[w].error = "generation" /\ workers[w].job # 0) =>
      /\ jobs[workers[w].job].status = "error"
      /\ jobs[workers[w].job].error # None

\* C17: get_next_pending_job() is an atomic claim: the job it returns was
\* pending, is 'running' afterwards, has the least created_at of the
\* pending jobs and is returned to no other caller, ever; when no job is
\* pending it returns None and changes nothing.
C17_AtomicClaimOfOldestPendingJob ==
  [][\A w \in Workers :
       (workers[w].pc = "poll" /\ workers'[w].pc # "poll") =>
         IF workers'[w].job = 0
         THEN /\ PendingJobs(jobs) = {}
              /\ jobs' = jobs
         ELSE LET j == workers'[w].job
              IN  /\ jobs[j].status = "pending"
                  /\ jobs'[j].status = "running"
                  /\ \A k \in 1..Len(jobs) :
                       jobs[k].status = "pending" => jobs[j].created_at <= jobs[k].created_at
                  /\ returned_to'[j] = <<w>>
                  /\ \A k \in 1..Len(jobs) : k # j => jobs'[k] = jobs[k]
    ]_vars

\* two workers hold one job each, the older job claimed first
C17_TwoWorkersTwoJobs ==
  /\ Len(jobs) = 2
  /\ jobs[1].created_at < jobs[2].created_at
  /\ \A w \in {1, 2} : workers[w].pc = "generate"
  /\ workers[1].job # workers[2].job
  /\ Len(returned_to[1]) = 1 /\ Len(returned_to[2]) = 1

\* C18: run_worker_loop runs forever: whatever process_one_job and
\* process_one_agent_job do, the loop polls again, so that a worker that
\* has entered the loop never ends and pending jobs keep being claimed.
C18_WorkerLoopRunsForever ==
  \A w \in Workers : workers[w].pc = "exited" => workers[w].error = "ImportError"

(***************************************************************************)
(* Properties of the subheading store (SpecSubheadings).                   *)
(***************************************************************************)
\* C19: no two stored subheadings have similarity >= threshold;
\* generate_prompt_subheading makes at most max_attempts attempts and
\* returns either a subheading that was not similar to any stored one and
\* is now stored, or None with the store as it was.
C19_StoredSubheadingsPairwiseDissimilar ==
  /\ \A a \in 1..Len(stored_subheadings) :
       \A b \in 1..Len(stored_subheadings) :
         a # b => similarity[stored_subheadings[a], stored_subheadings[b]] < THRESHOLD
  /\ generation.attempt <= MAX_ATTEMPTS
  /\ (generation.pc = "returned" /\ generation.result = None) =>
       generation.stored_after = generation.stored_before
  /\ (generation.pc = "returned" /\ generation.result # None) =>
       /\ generation.stored_after = Append(generation.stored_before, generation.result)
       /\ \A a \in 1..Len(generation.stored_before) :
            similarity[generation.result, generation.stored_before[a]] < THRESHOLD

\* the store holds two subheadings, a third one was rejected in every one of
\* the max_attempts attempts and the call returned None
C19_GaveUpAfterMaxAttempts ==
  /\ Len(stored_subheadings) = 2
  /\ generation.pc = "returned"
  /\ generation.result = None
  /\ generation.attempt = MAX_ATTEMPTS
  /\ generation.stored_before = stored_subheadings

\* the node-index range of the StoryFrame before the one of group g (empty
\* for the first StoryFrame)
PreviousFrameRange(g) ==
  IF clip_groups[1][g].key[1] >= 1 THEN 0..(Len(FrameA(g).nodes) - 1) ELSE {}

\* C20: every step rendered with continuity enabled that is not the first
\* step after the reset draws as ghosts exactly the node-index range of the
\* previous StoryFrame minus the visible_nodes of the step; the first step
\* after the reset, and every step when continuity is disabled, draws no
\* ghost.
C20_GhostsAreHiddenNodesOfPreviousFrame ==
  \A g \in 1..Len(clip_groups[1]) :
    \A j \in 1..Len(clip_groups[1][g].clips) :
      LET clip == clip_groups[1][g].clips[j]
          step == formatted_frames[1][clip.step + 1]
      IN  IF preserve_continuity[1] /\ clip.step > 0
          THEN DOMAIN clip.ghosts = PreviousFrameRange(g) \ step.visible_nodes
          ELSE DOMAIN clip.ghosts = {}

\* C21: every node index drawn as a ghost in a step was in visible_nodes of
\* an earlier step of the same session, and is drawn with the node record
\* the index had in that earlier step; a node that has never been visible
\* is never drawn as a ghost.
C21_GhostsWereVisibleBefore ==
  \A g \in 1..Len(clip_groups[1]) :
    \A j \in 1..Len(clip_groups[1][g].clips) :
      LET clip == clip_groups[1][g].clips[j]
      IN  \A k \in DOMAIN clip.ghosts :
            \E e \in 1..clip.step :
              LET earlier == formatted_frames[1][e]
              IN  /\ k \in earlier.visible_nodes
                  /\ k < Len(earlier.nodes)
                  /\ clip.ghosts[k] = earlier.nodes[k + 1]

\* the endpoints of a connection: its sources and its target
Endpoints(conn) == Range(conn[1]) \cup {conn[2]}

\* C22: for a frame with connections c_0..c_{m-1}, every emitted step
\* either adds the smallest not yet visible endpoint of the next connection
\* c_i while listing c_0..c_{i-1}, or, once every endpoint of c_i is
\* visible, keeps the visible set and lists c_0..c_i; the sequence ends with
\* the step that lists all m connections, and holds no other step.
C22_NodesBeforeTheirEdge ==
  (Sequenced /\ frame_in[1].connections # <<>>) =>
    LET seq == frame_sequence[1]
        conns == frame_in[1].connections
    IN  /\ Len(seq) >= 1
        /\ Len(seq[Len(seq)].connections) = Len(conns)
        /\ \A p \in 1..Len(seq) :
             LET shown == IF p = 1 THEN {} ELSE seq[p - 1].visible_nodes
                 listed == IF p = 1 THEN 0 ELSE Len(seq[p - 1].connections)
                 step == seq[p]
                 hidden == IF listed < Len(conns)
                           THEN Endpoints(conns[listed + 1]) \ shown ELSE {}
             IN  /\ step.nodes = frame_in[1].nodes
                 /\ IF hidden # {}
                    THEN /\ step.connections = SubSeq(conns, 1, listed)
                         /\ step.visible_nodes =
                              shown \cup {CHOOSE x \in hidden : \A y \in hidden : x <= y}
                    ELSE /\ listed < Len(conns)
                         /\ step.connections = SubSeq(conns, 1, listed + 1)
                         /\ step.visible_nodes = shown

\* a chain 0 -> 1 -> 2 (or alike) expanded into five steps: two nodes, the
\* first edge, the third node, the second edge
C22_ChainOfTwoConnections ==
  /\ Sequenced
  /\ Len(frame_in[1].connections) = 2
  /\ Len(frame_sequence[1]) = 5
  /\ Len(frame_sequence[1][3].connections) = 1
  /\ Len(frame_sequence[1][4].connections) = 1
  /\ Cardinality(frame_sequence[1][4].visible_nodes) = 3

\* C23: a frame with n >= 1 nodes and no connections is expanded into
\* exactly n steps, step i (0-based) with visible_nodes {0..i} and no
\* connection; a frame with no nodes and no connections into exactly one
\* step with empty visibility.
C23_NodesRevealedOneByOne ==
  (Sequenced /\ frame_in[1].connections = <<>>) =>
    LET seq == frame_sequence[1]
        n == Len(frame_in[1].nodes)
    IN  IF n = 0
        THEN /\ Len(seq) = 1
             /\ seq[1].visible_nodes = {}
             /\ seq[1].connections = <<>>
        ELSE /\ Len(seq) = n
             /\ \A p \in 1..n :
                  /\ seq[p].visible_nodes = 0..(p - 1)
                  /\ seq[p].connections = <<>>

\* three nodes without connections expanded into three steps
C23_ThreeNodesThreeSteps ==
  /\ Sequenced
  /\ frame_in[1].connections = <<>>
  /\ Len(frame_in[1].nodes) = 3
  /\ Len(frame_sequence[1]) = 3
  /\ frame_sequence[1][2].visible_nodes = {0, 1}

\* C24: after every rendered step, a caption-only step with an empty node
\* list included, the module state is populated and its stored node records
\* are the node list of that step.
C24_StateHoldsLastRenderedStep ==
  (pc[1] \in {"render", "assemble"} /\ i[1] >= 1) =>
    /\ ~last_frame_state.nodes.is_none
    /\ last_frame_state.nodes.value = formatted_frames[1][i[1]].nodes

\* C25: a frame written with a non-empty node list and the sentinel NO_NODE
\* as its connection list decodes without error into a StoryFrame with
\* those nodes and no connection, which the sequencer reveals one node per
\* step.
C25_NodesWithoutConnectionsDecoded ==
  (/\ Decoded
   /\ WellFormedGraphFrame
   /\ wire_in[1].nodes # <<>>
   /\ wire_in[1].connections = <<>>) =>
    /\ parsed[1].err = NoError
    /\ \E k \in 1..Len(parsed[1].frames) :
         LET frame == parsed[1].frames[k]
         IN  /\ frame.nodes = wire_in[1].nodes
             /\ frame.connections = <<>>
             /\ Len(generate_animated_frame_sequence(frame.nodes, frame.connections,
                                                     frame.text, STEP_DURATION))
                  = Len(frame.nodes)

C28_PositionsDistinct ==
  (Len(position_out) = 2 /\ position_out[1].index # position_out[2].index) =>
    position_out[1].position # position_out[2].position

\* C27: whatever the length of the background source track, the mixing
\* step succeeds, the background track of the final clip plays for the
\* whole duration of the final timeline, and the narration tracks are the
\* ones of the group clips, unchanged.
C27_BackgroundCoversTimeline ==
  /\ raised[1] # <<"background">>
  /\ final_clip[1] # <<>> =>
       LET final == final_clip[1][1]
       IN  /\ final.background.duration = final.duration
           /\ final.background.audible = final.duration
           /\ final.narration = [k \in 1..Len(final.clips) |-> final.clips[k].audio]

\* C29: in the last step emitted for a frame whose connections refer to its
\* own nodes, every node of the frame is visible, the nodes that no
\* connection references included.
C29_LastStepShowsEveryNode ==
  (Sequenced /\ IndicesInRange(frame_in[1])) =>
    frame_sequence[1][Len(frame_sequence[1])].visible_nodes =
      0..(Len(frame_in[1].nodes) - 1)

\* C30: an agent job that process_one_agent_job has handled (a video was
\* generated for it) is not returned by a later poll of
\* get_next_pending_job("AGENT") while its created_at stays as it is.
C30_AgentJobHandledOnce ==
  \A j \in 1..Len(agent_returned_to) :
    \A k \in 1..(Len(agent_returned_to[j]) - 1) :
      ~agent_returned_to[j][k].generated

====
